---- MODULE Spec2Model ----
(***************************************************************************)
(* PR Reviewer webhook handler (src/webhook-handler.http.ts).              *)
(*                                                                         *)
(* One request is served by the default-exported async handler.  The       *)
(* handler suspends at three awaits: req.text(), fetch(...) and            *)
(* response.text(); everything between two awaits runs synchronously, so   *)
(* each action below is one such synchronous segment.                      *)
(*                                                                         *)
(* Strings the code inspects (endsWith, includes, ===) are sequences of    *)
(* one-character strings.  The request body is a sequence of lexical       *)
(* tokens: "SP" (space/tab/newline), "NBSP" (white space for               *)
(* String.prototype.trim but not for the JSON grammar), "JUNK" (any text   *)
(* that is not JSON) and "DOC" (the text of one JSON value).               *)
(***************************************************************************)
EXTENDS Integers, Sequences, FiniteSets, TLC

\* A generated payload deviates from a well-formed pull_request event in at
\* most this many of its fields.
MaxDeviations == 2
\* Generated logins carry at most this many filler characters on each side.
MaxPad == 1

-----------------------------------------------------------------------------
(* String literals of the source, as character sequences.                  *)

S_opened    == <<"o","p","e","n","e","d">>
S_closed    == <<"c","l","o","s","e","d">>
S_Bot       == <<"B","o","t">>
S_User      == <<"U","s","e","r">>
S_botSuffix == <<"[","b","o","t","]">>
S_appJson   == <<"a","p","p","l","i","c","a","t","i","o","n","/","j","s","o","n">>
S_rateLimit == <<"r","a","t","e"," ","l","i","m","i","t">>
S_timeout   == <<"t","i","m","e","o","u","t">>
S_AbortError == <<"A","b","o","r","t","E","r","r","o","r">>

\* String.prototype.endsWith
EndsWith(s, suffix) ==
    /\ Len(s) >= Len(suffix)
    /\ SubSeq(s, Len(s) - Len(suffix) + 1, Len(s)) = suffix

\* String.prototype.includes
Includes(s, sub) ==
    \E i \in 0..(Len(s) - Len(sub)) : SubSeq(s, i + 1, i + Len(sub)) = sub

-----------------------------------------------------------------------------
(* JavaScript values, tagged so that values of different types compare.    *)

Undefined == [t |-> "undefined"]
Null      == [t |-> "null"]
Arr       == [t |-> "array"]
Bool(b)   == [t |-> "boolean", b |-> b]
Str(s)    == [t |-> "string", s |-> s]
\* A number is n (k = "integer"), n + 1/2 (k = "fraction") or Infinity.
Num(n, k) == [t |-> "number", n |-> n, k |-> k]
Obj(f)    == [t |-> "object", f |-> f]

\* typeof v
TypeOf(v) == IF v.t \in {"null", "array", "object"} THEN "object" ELSE v.t

\* !v
Falsy(v) ==
    \/ v.t \in {"undefined", "null"}
    \/ v.t = "string" /\ v.s = <<>>
    \/ v.t = "number" /\ v.k = "integer" /\ v.n = 0
    \/ v.t = "boolean" /\ ~v.b

\* v.name, for a v that is neither undefined nor null
Get(v, name) ==
    IF v.t = "object" /\ name \in DOMAIN v.f THEN v.f[name] ELSE Undefined

-----------------------------------------------------------------------------
(* Inputs: the JSON documents a request body may hold.                     *)

\* An object literal; a slot holding Undefined is a key the document lacks.
MkObj(slots) ==
    Obj([k \in {x \in DOMAIN slots : slots[x].t # "undefined"} |-> slots[k]])

S_x       == <<"x">>
S_seven   == <<"7">>
S_repo    == <<"o","/","r">>
S_alice   == <<"a","l","i","c","e">>
S_depbot  == <<"d","e","p","[","b","o","t","]">>

\* Marks a slot whose value is an object built from the slots below it.
Present == [t |-> "present"]

BotUser   == MkObj([login |-> Str(S_depbot), type |-> Str(S_Bot), id |-> Num(2, "integer")])
HumanUser == MkObj([login |-> Str(S_alice), type |-> Str(S_User), id |-> Num(1, "integer")])

\* The values a well-formed event may hold in each field.
Regular ==
    [ action       |-> {Str(S_opened), Str(S_closed)},
      pull_request |-> {MkObj([user |-> BotUser]), MkObj([user |-> HumanUser])},
      repository   |-> {Present},
      full_name    |-> {Str(S_repo)},
      number       |-> {Num(7, "integer")},
      sender       |-> {Present},
      login        |-> {Str(S_alice), Str(S_depbot)},
      type         |-> {Str(S_User), Str(S_Bot)},
      id           |-> {Num(1, "integer")} ]

\* The ways a field may deviate: missing, of another type, empty, or a
\* number that is not a finite integer.
Deviant ==
    [ action       |-> {Undefined, Str(<<>>), Num(1, "integer")},
      pull_request |-> {Undefined, Null, Str(S_x)},
      repository   |-> {Undefined, Arr},
      full_name    |-> {Undefined, Str(<<>>), Num(1, "integer")},
      number       |-> {Undefined, Str(S_seven), Num(7, "fraction"), Num(0, "infinity")},
      sender       |-> {Undefined, Str(S_x)},
      login        |-> {Undefined, Str(<<>>), Num(1, "integer")},
      type         |-> {Undefined, Str(<<>>), Num(1, "integer")},
      id           |-> {Undefined, Str(S_seven), Num(1, "fraction")} ]

Slots == DOMAIN Regular

Pick(slot, D) == IF slot \in D THEN Deviant[slot] ELSE Regular[slot]

\* Every choice of field values that deviates exactly in the slots D.
SlotChoices(D) ==
    [ action : Pick("action", D), pull_request : Pick("pull_request", D),
      repository : Pick("repository", D), full_name : Pick("full_name", D),
      number : Pick("number", D), sender : Pick("sender", D),
      login : Pick("login", D), type : Pick("type", D), id : Pick("id", D) ]

BuildPayload(c) ==
    MkObj([ action       |-> c.action,
            number       |-> c.number,
            pull_request |-> c.pull_request,
            repository   |-> IF c.repository = Present
                             THEN MkObj([full_name |-> c.full_name])
                             ELSE c.repository,
            sender       |-> IF c.sender = Present
                             THEN MkObj([login |-> c.login, type |-> c.type, id |-> c.id])
                             ELSE c.sender ])

\* JSON documents that are not objects with fields.
NonObjectPayloads ==
    {Null, Bool(FALSE), Bool(TRUE), Num(5, "integer"), Str(S_x), Arr}

Payloads ==
    NonObjectPayloads \cup
    UNION { {BuildPayload(c) : c \in SlotChoices(D)} :
            D \in {E \in SUBSET Slots : Cardinality(E) <= MaxDeviations} }

-----------------------------------------------------------------------------
(* Messages, errors and responses.                                         *)

\* A message is a sequence of parts: literal text of the source, or a value
\* interpolated into it (src says which expression was interpolated).
Lit(text)    == [k |-> "lit", v |-> text]
Dyn(src, x)  == [k |-> src, v |-> ToString(x)]

\* A thrown error: class is the constructor's name.
Error(class, message, statusCode, errorCode) ==
    [class |-> class, message |-> message, statusCode |-> statusCode,
     errorCode |-> errorCode]

NoError == Error("none", <<>>, 0, "")

WebhookError(message, statusCode, errorCode) ==
    Error("WebhookError", message, statusCode, errorCode)

GitHubApiError(message, statusCode, errorCode) ==
    Error("GitHubApiError", message, statusCode, errorCode)

ConfigurationError(message, statusCode, errorCode) ==
    Error("ConfigurationError", message, statusCode, errorCode)

\* An error of the platform (TypeError, SyntaxError, PermissionDenied, ...):
\* it has a message and neither statusCode nor errorCode.
PlatformError(class, text) ==
    Error(class, <<Dyn("platform", text)>>, 0, "")

NoResponse == [status |-> 0, envelope |-> "none", code |-> "", message |-> <<>>]

\* new Response(body, {status}) with a body: the constructor throws a
\* RangeError for a status outside 200..599 and a TypeError for a null-body
\* status.
ResponseInitOk(status) ==
    /\ status \in 200..599
    /\ status \notin {204, 205, 304}

\* The Response createErrorResponse returns; Thrown when its constructor throws.
Thrown == [status |-> 0, envelope |-> "thrown", code |-> "", message |-> <<>>]

createErrorResponse(error, message, statusCode) ==
    IF ResponseInitOk(statusCode)
    THEN [status |-> statusCode, envelope |-> "error", code |-> error,
          message |-> message]
    ELSE Thrown

createSuccessResponse(message) ==
    [status |-> 200, envelope |-> "success", code |-> "", message |-> message]

-----------------------------------------------------------------------------
(* Bot detection.                                                          *)

\* A detector that looks for "[bot]" anywhere in the login.
isBot_anywhere(user) ==
    IF Get(user, "type") = Str(S_Bot) THEN TRUE
    ELSE IF Includes(Get(user, "login").s, S_botSuffix) THEN TRUE
    ELSE FALSE

isBot(user) ==
    IF Get(user, "type") = Str(S_Bot) THEN TRUE
    ELSE IF EndsWith(Get(user, "login").s, S_botSuffix) THEN TRUE
    ELSE FALSE

-----------------------------------------------------------------------------
(* The Request Validator's contract, check by check, stated on the tagged  *)
(* values directly.                                                        *)

IsObjectValue(v)     == v.t \in {"object", "array"}
IsNonEmptyString(v)  == v.t = "string" /\ Len(v.s) > 0
IsNumberValue(v)     == v.t = "number"

\* The value check i inspects.
CheckedValue(i, p) ==
    CASE i = 1  -> p
      [] i = 2  -> Get(p, "action")
      [] i = 3  -> Get(p, "pull_request")
      [] i = 4  -> Get(p, "repository")
      [] i = 5  -> Get(p, "number")
      [] i = 6  -> Get(p, "sender")
      [] i = 7  -> Get(Get(p, "sender"), "login")
      [] i = 8  -> Get(Get(p, "sender"), "type")
      [] i = 9  -> Get(Get(p, "sender"), "id")
      [] i = 10 -> Get(Get(p, "repository"), "full_name")

CheckPasses(i, p) ==
    CASE i \in {1, 3, 4, 6}     -> IsObjectValue(CheckedValue(i, p))
      [] i \in {2, 7, 8, 10}    -> IsNonEmptyString(CheckedValue(i, p))
      [] i \in {5, 9}           -> IsNumberValue(CheckedValue(i, p))

CheckCodes ==
    << "INVALID_PAYLOAD_TYPE", "MISSING_ACTION", "MISSING_PULL_REQUEST",
       "MISSING_REPOSITORY", "MISSING_NUMBER", "MISSING_SENDER",
       "MISSING_SENDER_LOGIN", "MISSING_SENDER_TYPE", "MISSING_SENDER_ID",
       "MISSING_REPO_FULL_NAME" >>

Checks == DOMAIN CheckCodes

FailingChecks(p) == {i \in Checks : ~CheckPasses(i, p)}

FirstFailing(p) == CHOOSE i \in FailingChecks(p) : \A j \in FailingChecks(p) : i <= j

\* The checks that read inside the value check i inspects.
NestedChecks(i) ==
    CASE i = 1 -> Checks \ {1}
      [] i = 4 -> {10}
      [] i = 6 -> {7, 8, 9}
      [] OTHER -> {}

\* A validator that looks at `number` before pull_request and repository.
validateWebhookPayload_numberFirst(payload) ==
    LET order == <<1, 2, 5, 3, 4, 6, 7, 8, 9, 10>>
        bad   == {k \in DOMAIN order : ~CheckPasses(order[k], payload)}
        first == CHOOSE k \in bad : \A j \in bad : k <= j
    IN  IF bad = {} THEN NoError
        ELSE WebhookError(<<Lit("Webhook payload is invalid")>>, 400,
                          CheckCodes[order[first]])

\* A validator that does not look at sender.id.
validateWebhookPayload_noSenderId(payload) ==
    LET bad == {i \in Checks \ {9} : ~CheckPasses(i, payload)}
    IN  IF bad = {} THEN NoError
        ELSE WebhookError(<<Lit("Webhook payload is invalid")>>, 400,
                          CheckCodes[CHOOSE i \in bad : \A j \in bad : i <= j])

-----------------------------------------------------------------------------
(* Payload validation.                                                     *)

\* The error validateWebhookPayload throws for payload; NoError when it
\* returns.
validateWebhookPayload(payload) ==
    LET sender == Get(payload, "sender")
        missing(what, code) ==
            WebhookError(<<Lit(what)>>, 400, code)
    IN
    IF Falsy(payload) \/ TypeOf(payload) # "object"
    THEN missing("Webhook payload must be a valid JSON object", "INVALID_PAYLOAD_TYPE")
    ELSE IF Falsy(Get(payload, "action")) \/ TypeOf(Get(payload, "action")) # "string"
    THEN missing("Webhook payload missing required field: action", "MISSING_ACTION")
    ELSE IF Falsy(Get(payload, "pull_request"))
            \/ TypeOf(Get(payload, "pull_request")) # "object"
    THEN missing("Webhook payload missing required field: pull_request",
                 "MISSING_PULL_REQUEST")
    ELSE IF Falsy(Get(payload, "repository"))
            \/ TypeOf(Get(payload, "repository")) # "object"
    THEN missing("Webhook payload missing required field: repository",
                 "MISSING_REPOSITORY")
    ELSE IF TypeOf(Get(payload, "number")) # "number"
    THEN missing("Webhook payload missing required field: number", "MISSING_NUMBER")
    ELSE IF Falsy(Get(payload, "pull_request"))
            \/ TypeOf(Get(payload, "pull_request")) # "object"
    THEN missing("Webhook payload missing required field: pull_request",
                 "MISSING_PULL_REQUEST")
    ELSE IF Falsy(sender) \/ TypeOf(sender) # "object"
    THEN missing("Webhook payload missing required field: sender", "MISSING_SENDER")
    ELSE IF Falsy(Get(sender, "login")) \/ TypeOf(Get(sender, "login")) # "string"
    THEN missing("Sender missing required field: login", "MISSING_SENDER_LOGIN")
    ELSE IF Falsy(Get(sender, "type")) \/ TypeOf(Get(sender, "type")) # "string"
    THEN missing("Sender missing required field: type", "MISSING_SENDER_TYPE")
    ELSE IF TypeOf(Get(sender, "id")) # "number"
    THEN missing("Sender missing required field: id", "MISSING_SENDER_ID")
    ELSE IF Falsy(Get(Get(payload, "repository"), "full_name"))
            \/ TypeOf(Get(Get(payload, "repository"), "full_name")) # "string"
    THEN missing("Repository missing required field: full_name",
                 "MISSING_REPO_FULL_NAME")
    ELSE NoError

-----------------------------------------------------------------------------
(* Request body: trimming and JSON parsing, on tokens.                     *)

\* White space for String.prototype.trim, and for the JSON grammar.
TrimWhitespace == {"SP", "NBSP"}
JsonWhitespace == {"SP"}

RECURSIVE StripLeft(_, _)
StripLeft(s, ws) ==
    IF s # <<>> /\ Head(s) \in ws THEN StripLeft(Tail(s), ws) ELSE s

RECURSIVE StripRight(_, _)
StripRight(s, ws) ==
    IF s # <<>> /\ s[Len(s)] \in ws
    THEN StripRight(SubSeq(s, 1, Len(s) - 1), ws)
    ELSE s

\* An emptiness check that forgets to trim.
Trim_none(s) == s

\* body.trim()
Trim(s) == StripRight(StripLeft(s, TrimWhitespace), TrimWhitespace)

\* JSON.parse(body) returns a value iff the text is one JSON value with
\* optional JSON white space around it; otherwise it throws a SyntaxError.
JsonParses(s) ==
    StripRight(StripLeft(s, JsonWhitespace), JsonWhitespace) = <<"DOC">>

-----------------------------------------------------------------------------
(* Comment generation and the GitHub API client.                           *)

\* A join that ends every line, the last included, with the separator.
Join_trailing(lines, sep) ==
    [i \in 1..(2 * Len(lines)) |-> IF i % 2 = 1 THEN lines[(i + 1) \div 2] ELSE sep]

RECURSIVE Join(_, _)
\* Array.prototype.join, giving the sequence of pieces of the joined string.
Join(lines, sep) ==
    IF lines = <<>> THEN <<>>
    ELSE IF Len(lines) = 1 THEN <<lines[1]>>
    ELSE <<lines[1], sep>> \o Join(Tail(lines), sep)

generateReviewComment ==
    Join(<<"@coderabbitai review", "/gemini review", "@cubic-dev-ai review",
           "@greptile review">>, "\n")

\* The error postComment throws for a response that is not ok, whose body
\* text is errorText.  (The message of the last case also holds
\* response.statusText, between the status and the dash.)
HttpFailure(status, errorText, repo, issueNumber) ==
    IF status = 401
    THEN GitHubApiError(
           <<Lit("GitHub API authentication failed. Please check your GITHUB_TOKEN.")>>,
           401, "GITHUB_AUTH_FAILED")
    ELSE IF status = 403
    THEN IF Includes(errorText, S_rateLimit)
         THEN GitHubApiError(
                <<Lit("GitHub API rate limit exceeded. Please try again later.")>>,
                429, "GITHUB_RATE_LIMIT")
         ELSE GitHubApiError(
                <<Lit("GitHub API access forbidden. Please check repository permissions.")>>,
                403, "GITHUB_FORBIDDEN")
    ELSE IF status = 404
    THEN GitHubApiError(
           <<Lit("Repository or pull request not found: "), Dyn("repo", repo),
             Lit("#"), Dyn("issueNumber", issueNumber)>>,
           404, "GITHUB_NOT_FOUND")
    ELSE IF status >= 500
    THEN GitHubApiError(
           <<Lit("GitHub API server error. Please try again later.")>>,
           503, "GITHUB_SERVER_ERROR")
    ELSE GitHubApiError(
           <<Lit("GitHub API request failed: "), Dyn("response.status", status),
             Lit(" - "), Dyn("errorText", errorText)>>,
           status, "GITHUB_API_REQUEST_FAILED")

\* The error postComment throws when fetch or response.text() rejects with
\* an error of the given name and message.
NetworkFailure(name, message) ==
    IF name = S_AbortError \/ Includes(message, S_timeout)
    THEN GitHubApiError(
           <<Lit("GitHub API request timed out. Please try again later.")>>,
           503, "GITHUB_TIMEOUT")
    ELSE GitHubApiError(
           <<Lit("Network error while contacting GitHub API: "),
             Dyn("error.message", message)>>,
           503, "GITHUB_NETWORK_ERROR")

-----------------------------------------------------------------------------
(* The handler's outer catch block.                                        *)

HandleError(error) ==
    IF error.class \in {"WebhookError", "GitHubApiError", "ConfigurationError"}
    THEN createErrorResponse(error.errorCode, error.message, error.statusCode)
    ELSE createErrorResponse(
           "INTERNAL_ERROR",
           <<Lit("An unexpected error occurred while processing the webhook")>>,
           500)

\* An allow-list that also lets "closed" through.
ALLOWED_ACTIONS_withClosed == {Str(S_opened), Str(S_closed)}

ALLOWED_ACTIONS == {Str(S_opened)}

-----------------------------------------------------------------------------
(* Inputs of a request, of the environment and of the downstream API.      *)

Methods == {"POST", "GET", "PUT"}

CT_json    == S_appJson
CT_charset == S_appJson \o <<";"," ","c","h","a","r","s","e","t","=","u","t","f","-","8">>
CT_json5   == S_appJson \o <<"5">>
CT_text    == <<"t","e","x","t","/","p","l","a","i","n">>
CT_upper   == <<"A","p","p","l","i","c","a","t","i","o","n","/","J","S","O","N">>
CT_ghJson  == <<"a","p","p","l","i","c","a","t","i","o","n","/","v","n","d",".",
                "g","i","t","h","u","b","+","j","s","o","n">>

\* req.headers.get('content-type'): null when the header is absent.
ContentTypes ==
    {Null, Str(<<>>), Str(CT_json), Str(CT_charset), Str(CT_json5), Str(CT_text),
     Str(CT_upper), Str(CT_ghJson)}

\* Request bodies, as token sequences.
Bodies ==
    { <<>>, <<"SP">>, <<"NBSP">>, <<"SP", "NBSP", "SP">>, <<"JUNK">>,
      <<"SP", "JUNK">>, <<"DOC">>, <<"SP", "DOC", "SP">>, <<"NBSP", "DOC">>,
      <<"DOC", "JUNK">>, <<"DOC", "DOC">> }

M_reset   == <<"r","e","s","e","t">>
M_aborted == <<"a","b","o","r","t","e","d">>

\* Messages of the errors req.text() may reject with, when the body's stream
\* fails before its end.
BodyReadErrors == {M_reset, M_aborted}

S_tok == <<"g","h","p">>

\* Deno.env.get('GITHUB_TOKEN'): the variable's value, undefined when it is
\* not set, or a thrown PermissionDenied when the process may not read it.
EnvThrows == [t |-> "throws"]
EnvReads  == {Undefined, Str(<<>>), Str(S_tok), EnvThrows}

\* Statuses the downstream API may answer with.
DownstreamStatuses == {200, 201, 302, 304, 400, 401, 403, 404, 422, 500, 503}

T_rate   == <<"A","P","I"," ">> \o S_rateLimit \o <<" ","h","i","t">>
T_Rate   == <<"R","a","t","e"," ","L","i","m","i","t">>
T_denied == <<"d","e","n","i","e","d">>

\* Bodies of a downstream response that is not ok.
ErrorTexts == {<<>>, T_rate, T_Rate, T_denied}

S_TypeError == <<"T","y","p","e","E","r","r","o","r">>
M_refused   == <<"r","e","f","u","s","e","d">>
M_timedOut  == <<"t","i","m","e","d"," ","o","u","t">>
M_timeout   == <<"a"," ">> \o S_timeout

\* Errors fetch or response.text() may reject with: [name, message].
NetworkErrors ==
    [name : {S_TypeError, S_AbortError}, message : {M_refused, M_timedOut, M_timeout}]

\* The sets a request's inputs are drawn from.
Inputs ==
    [ methods      |-> Methods,
      contentTypes |-> ContentTypes,
      bodies       |-> Bodies,
      readErrors   |-> BodyReadErrors,
      payloads     |-> Payloads,
      envReads     |-> EnvReads,
      statuses     |-> DownstreamStatuses,
      errorTexts   |-> ErrorTexts,
      netErrors    |-> NetworkErrors ]

\* An event with the given action, number, sender and author of the pull
\* request, every other field regular.
Event(action, number, login, type, prUser) ==
    MkObj([ action       |-> Str(action),
            number       |-> Num(number, "integer"),
            pull_request |-> MkObj([user |-> prUser]),
            repository   |-> MkObj([full_name |-> Str(S_repo)]),
            sender       |-> MkObj([login |-> Str(login), type |-> Str(type),
                                    id |-> Num(1, "integer")]) ])

\* Fewer inputs of each kind, for the runs in which two requests are served
\* at once.
FewInputs ==
    [ methods      |-> {"POST", "GET"},
      contentTypes |-> {Null, Str(CT_json)},
      bodies       |-> {<<"JUNK">>, <<"DOC">>},
      readErrors   |-> BodyReadErrors,
      payloads     |-> { Event(S_opened, 8, S_depbot, S_Bot, BotUser),
                         Event(S_opened, 7, S_alice, S_User, BotUser),
                         Event(S_opened, 7, S_alice, S_User, HumanUser),
                         Event(S_closed, 7, S_depbot, S_Bot, BotUser),
                         MkObj([action |-> Str(S_opened)]) },
      envReads     |-> EnvReads,
      statuses     |-> {201, 304, 403, 422},
      errorTexts   |-> {<<>>, T_rate, T_denied},
      netErrors    |-> [name : {S_TypeError}, message : {M_refused, M_timedOut, M_timeout}] ]

-----------------------------------------------------------------------------
(* State.                                                                  *)

VARIABLES
    pc,           \* pc[r]: where request r's handler invocation stands
    method,       \* method[r]: req.method
    contentType,  \* contentType[r]: req.headers.get('content-type')
    body,         \* body[r]: the text req.text() resolved to
    readError,    \* readError[r]: the message req.text() rejected with
    payload,      \* payload[r]: the value JSON.parse returned
    token,        \* token[r]: what Deno.env.get('GITHUB_TOKEN') gave
    downstream,   \* downstream[r]: what fetch and response.text() gave
    response,     \* response[r]: the Response the handler returned
    passed,       \* passed[r]: the pipeline stages request r has passed
    calls,        \* the fetch calls issued to the GitHub API, in order
    actor,        \* the user handed to BotDetector.isBot
    verdict       \* what isBot returned for actor

vars == <<pc, method, contentType, body, readError, payload, token, downstream,
          response, passed, calls, actor, verdict>>

Reqs == {1, 2}

NotRead      == <<"NOTREAD">>
NoReadError  == <<"NONE">>
NotParsed    == [t |-> "notparsed"]
NotConsulted == [t |-> "notconsulted"]

NoDownstream == [kind |-> "none", status |-> 0, text |-> <<>>, name |-> <<>>,
                 message |-> <<>>]
NoActor      == [t |-> "none"]

\* The state before any request has arrived; only the requests in live
\* will arrive.
InitWith(live) ==
    /\ pc = [r \in Reqs |-> IF r \in live THEN "idle" ELSE "off"]
    /\ method = [r \in Reqs |-> ""]
    /\ contentType = [r \in Reqs |-> Undefined]
    /\ body = [r \in Reqs |-> NotRead]
    /\ readError = [r \in Reqs |-> NoReadError]
    /\ payload = [r \in Reqs |-> NotParsed]
    /\ token = [r \in Reqs |-> NotConsulted]
    /\ downstream = [r \in Reqs |-> NoDownstream]
    /\ response = [r \in Reqs |-> NoResponse]
    /\ passed = [r \in Reqs |-> <<>>]
    /\ calls = <<>>
    /\ verdict = "none"

Init ==
    /\ InitWith({1})
    /\ actor = NoActor

-----------------------------------------------------------------------------
(* The handler.                                                            *)

\* The handler returns resp, or rejects when building the response threw.
Settle(r, resp, stages) ==
    /\ pc' = [pc EXCEPT ![r] = IF resp = Thrown THEN "rejected" ELSE "done"]
    /\ response' = [response EXCEPT ![r] = IF resp = Thrown THEN NoResponse ELSE resp]
    /\ passed' = [passed EXCEPT ![r] = stages]

Suspend(r, at, stages) ==
    /\ pc' = [pc EXCEPT ![r] = at]
    /\ passed' = [passed EXCEPT ![r] = stages]
    /\ UNCHANGED response

\* A handler that looks at the Content-Type header before the method.
ValidateRequestHead_headerFirst(m, ct) ==
    IF Falsy(ct) \/ ~Includes(ct.s, S_appJson)
    THEN createErrorResponse("INVALID_CONTENT_TYPE",
                             <<Lit("Content-Type must be application/json")>>, 400)
    ELSE IF m # "POST"
    THEN createErrorResponse("METHOD_NOT_ALLOWED",
                             <<Lit("Only POST requests are supported")>>, 405)
    ELSE NoResponse

\* The handler's checks of the method and of the Content-Type header: the
\* Response it returns, NoResponse when both pass.
ValidateRequestHead(m, ct) ==
    IF m # "POST"
    THEN createErrorResponse("METHOD_NOT_ALLOWED",
                             <<Lit("Only POST requests are supported")>>, 405)
    ELSE IF Falsy(ct) \/ ~Includes(ct.s, S_appJson)
    THEN createErrorResponse("INVALID_CONTENT_TYPE",
                             <<Lit("Content-Type must be application/json")>>, 400)
    ELSE NoResponse

\* A request arrives and the handler runs up to `await req.text()`.  Here
\* and below, from holds the sets the inputs are drawn from.
HandleRequest(r, from) ==
    /\ pc[r] = "idle"
    /\ \E m \in from.methods, ct \in from.contentTypes :
         /\ method' = [method EXCEPT ![r] = m]
         /\ contentType' = [contentType EXCEPT ![r] = ct]
         /\ IF ValidateRequestHead(m, ct) # NoResponse
            THEN Settle(r, ValidateRequestHead(m, ct),
                        IF m # "POST" THEN <<>> ELSE <<"method">>)
            ELSE Suspend(r, "awaitBody", <<"method", "contentType">>)
    /\ UNCHANGED <<body, readError, payload, token, downstream, calls, actor,
                   verdict>>

\* A constructor that stores whatever the environment holds.
NewGitHubApiClient_unchecked(e) ==
    IF e = EnvThrows THEN PlatformError("PermissionDenied", "env") ELSE NoError

\* new GitHubApiClient(), given what Deno.env.get returned or threw: the
\* error the constructor throws, NoError when it returns.
NewGitHubApiClient(e) ==
    IF e = EnvThrows
    THEN PlatformError("PermissionDenied", "env")
    ELSE IF Falsy(e)
    THEN ConfigurationError(<<Lit("GitHub token not found in environment variables")>>,
                            500, "MISSING_GITHUB_TOKEN")
    ELSE NoError

\* A call that takes the issue number from the sender's id.
FetchCall_senderId(r, p, tk) ==
    [req |-> r,
     repo |-> Get(Get(p, "repository"), "full_name"),
     issueNumber |-> Get(Get(p, "sender"), "id"),
     body |-> generateReviewComment,
     token |-> tk]

\* A call built from a payload kept where every invocation can reach it:
\* it names the pull request of another request's event, when there is one.
FetchCall_sharedPayload(r, p, tk) ==
    LET others == {q \in Reqs \ {r} : payload[q].t = "object"
                                       /\ validateWebhookPayload(payload[q]) = NoError}
        src    == IF others = {} THEN p ELSE payload[CHOOSE q \in others : TRUE]
    IN  [req |-> r,
         repo |-> Get(Get(src, "repository"), "full_name"),
         issueNumber |-> Get(src, "number"),
         body |-> generateReviewComment,
         token |-> tk]

\* The fetch call postComment issues for payload p with credential tk.
FetchCall(r, p, tk) ==
    [req |-> r,
     repo |-> Get(Get(p, "repository"), "full_name"),
     issueNumber |-> Get(p, "number"),
     body |-> generateReviewComment,
     token |-> tk]

\* A handler that posts without consulting the allow-list.
ProcessEvent_noAllowList(r, p, from) ==
    \E e \in from.envReads :
      /\ token' = [token EXCEPT ![r] = e]
      /\ IF NewGitHubApiClient(e) # NoError
         THEN /\ Settle(r, HandleError(NewGitHubApiClient(e)),
                        <<"method", "contentType", "parse", "validate", "allowList">>)
              /\ UNCHANGED calls
         ELSE /\ calls' = Append(calls, FetchCall(r, p, e))
              /\ Suspend(r, "awaitFetch",
                         <<"method", "contentType", "parse", "validate",
                           "allowList", "config">>)

\* The handler from a validated payload p to `await fetch(...)`.
ProcessEvent(r, p, from) ==
    IF Get(p, "action") \notin ALLOWED_ACTIONS
    THEN /\ Settle(r, createSuccessResponse(
                        <<Lit("Action '"), Dyn("payload.action", Get(p, "action").s),
                          Lit("' is not in the allow-list. No review comment posted.")>>),
                   <<"method", "contentType", "parse", "validate">>)
         /\ UNCHANGED <<token, calls>>
    ELSE \E e \in from.envReads :
           /\ token' = [token EXCEPT ![r] = e]
           /\ IF NewGitHubApiClient(e) # NoError
              THEN /\ Settle(r, HandleError(NewGitHubApiClient(e)),
                             <<"method", "contentType", "parse", "validate", "allowList">>)
                   /\ UNCHANGED calls
              ELSE /\ calls' = Append(calls, FetchCall(r, p, e))
                   /\ Suspend(r, "awaitFetch",
                              <<"method", "contentType", "parse", "validate",
                                "allowList", "config">>)

\* req.text() settles.  When it resolves, the handler runs up to
\* `await fetch(...)`; when it rejects, the catch around it and JSON.parse
\* wraps the error as INVALID_JSON.
BodyArrives(r, from) ==
    /\ pc[r] = "awaitBody"
    /\ \/ \E b \in from.bodies :
            /\ body' = [body EXCEPT ![r] = b]
            /\ UNCHANGED readError
            /\ IF Trim(b) = <<>>
               THEN /\ Settle(r, HandleError(WebhookError(
                                   <<Lit("Request body is empty")>>, 400, "EMPTY_PAYLOAD")),
                              <<"method", "contentType">>)
                    /\ UNCHANGED <<payload, token, calls>>
               ELSE IF ~JsonParses(b)
               THEN /\ Settle(r, HandleError(WebhookError(
                                   <<Lit("Failed to parse webhook payload as JSON: "),
                                     Dyn("parseError.message", b)>>,
                                   400, "INVALID_JSON")),
                              <<"method", "contentType">>)
                    /\ UNCHANGED <<payload, token, calls>>
               ELSE \E p \in from.payloads :
                      /\ payload' = [payload EXCEPT ![r] = p]
                      /\ IF validateWebhookPayload(p) # NoError
                         THEN /\ Settle(r, HandleError(validateWebhookPayload(p)),
                                        <<"method", "contentType", "parse">>)
                              /\ UNCHANGED <<token, calls>>
                         ELSE ProcessEvent(r, p, from)
       \/ \E e \in from.readErrors :
            /\ readError' = [readError EXCEPT ![r] = e]
            /\ Settle(r, HandleError(WebhookError(
                           <<Lit("Failed to parse webhook payload as JSON: "),
                             Dyn("parseError.message", e)>>,
                           400, "INVALID_JSON")),
                      <<"method", "contentType">>)
            /\ UNCHANGED <<body, payload, token, calls>>
    /\ UNCHANGED <<method, contentType, downstream, actor, verdict>>

\* fetch settles: with a response that is ok, postComment returns and the
\* handler answers; with one that is not, postComment awaits its text.
FetchSettles(r, from) ==
    /\ pc[r] = "awaitFetch"
    /\ \/ \E s \in from.statuses :
            /\ downstream' = [downstream EXCEPT ![r] =
                                [NoDownstream EXCEPT !.kind = "response", !.status = s]]
            /\ IF s \in 200..299
               THEN Settle(r, createSuccessResponse(
                                <<Lit("Review comment posted successfully for PR #"),
                                  Dyn("payload.number", Get(payload[r], "number")),
                                  Lit(" by "),
                                  Dyn("payload.sender.login",
                                      Get(Get(payload[r], "sender"), "login").s)>>),
                           Append(passed[r], "post"))
               ELSE Suspend(r, "awaitText", passed[r])
       \/ \E e \in from.netErrors :
            /\ downstream' = [downstream EXCEPT ![r] =
                                [NoDownstream EXCEPT !.kind = "error", !.name = e.name,
                                                     !.message = e.message]]
            /\ Settle(r, HandleError(NetworkFailure(e.name, e.message)), passed[r])
    /\ UNCHANGED <<method, contentType, body, readError, payload, token, calls,
                   actor, verdict>>

\* response.text() settles and postComment throws the mapped error.
TextArrives(r, from) ==
    /\ pc[r] = "awaitText"
    /\ \/ \E text \in from.errorTexts :
            /\ downstream' = [downstream EXCEPT ![r].kind = "responseText",
                                                ![r].text = text]
            /\ Settle(r, HandleError(HttpFailure(
                                       downstream[r].status, text,
                                       Get(Get(payload[r], "repository"), "full_name").s,
                                       Get(payload[r], "number"))),
                      passed[r])
       \/ \E e \in from.netErrors :
            /\ downstream' = [downstream EXCEPT ![r].kind = "textError",
                                                ![r].name = e.name,
                                                ![r].message = e.message]
            /\ Settle(r, HandleError(NetworkFailure(e.name, e.message)), passed[r])
    /\ UNCHANGED <<method, contentType, body, readError, payload, token, calls,
                   actor, verdict>>

Next ==
    \E r \in Reqs :
        \/ HandleRequest(r, Inputs)
        \/ BodyArrives(r, Inputs)
        \/ FetchSettles(r, Inputs)
        \/ TextArrives(r, Inputs)

Spec == Init /\ [][Next]_vars

\* Two requests, served at once: the platform runs a handler invocation for
\* each, and their segments between awaits interleave in any order.
InitConcurrent ==
    /\ InitWith(Reqs)
    /\ actor = NoActor

NextConcurrent ==
    \E r \in Reqs :
        \/ HandleRequest(r, FewInputs)
        \/ BodyArrives(r, FewInputs)
        \/ FetchSettles(r, FewInputs)
        \/ TextArrives(r, FewInputs)

SpecConcurrent == InitConcurrent /\ [][NextConcurrent]_vars

-----------------------------------------------------------------------------
(* BotDetector.isBot on its own: the handler never calls it.               *)

Pad(n) == [i \in 1..n |-> "x"]

LoginCores ==
    { <<>>, S_botSuffix, <<"[","b","o","t">>, <<"b","o","t","]">>,
      <<"[","B","O","T","]">> }

\* Logins around a core, with filler on either side; a login is not empty.
Logins ==
    { Pad(i) \o core \o Pad(j) : i \in 0..MaxPad, j \in 0..MaxPad, core \in LoginCores }
    \ { <<>> }

AccountTypes ==
    { S_Bot, S_User, <<"b","o","t">>, <<"B","O","T">>, <<"B","o","t","s">> }

Actors ==
    { MkObj([login |-> Str(l), type |-> Str(ty), id |-> Num(1, "integer")]) :
        l \in Logins, ty \in AccountTypes }

InitIsBot ==
    /\ InitWith({})
    /\ actor \in Actors

Classify ==
    /\ verdict = "none"
    /\ verdict' = IF isBot(actor) THEN "bot" ELSE "human"
    /\ UNCHANGED <<pc, method, contentType, body, readError, payload, token,
                   downstream, response, passed, calls, actor>>

NextIsBot == Classify

SpecIsBot == InitIsBot /\ [][NextIsBot]_vars

-----------------------------------------------------------------------------
(* Vocabulary of the properties.                                           *)

Terminal(r) == pc[r] \in {"done", "rejected"}

\* The fetch calls issued while serving request r.
CallsOf(r) == {i \in DOMAIN calls : calls[i].req = r}

Parsed(r) == payload[r] # NotParsed

\* The payload meets the contract of all ten checks.
WellFormed(p) == \A i \in Checks : CheckPasses(i, p)

\* The payload meets the contract as section 4.1 words it: action "must
\* exist and be a string", every other field as in CheckPasses.
WellFormedAnyAction(p) ==
    /\ \A i \in Checks \ {2} : CheckPasses(i, p)
    /\ Get(p, "action").t = "string"

\* number and sender.id are integers.
IntegerFields(p) ==
    /\ WellFormedAnyAction(p)
    /\ Get(p, "number").k = "integer"
    /\ Get(Get(p, "sender"), "id").k = "integer"

ActionOf(p) == Get(p, "action").s
LoginOf(p)  == Get(Get(p, "sender"), "login").s
TypeOfSender(p) == Get(Get(p, "sender"), "type").s

\* The last five characters of l are "[bot]".
HasBotSuffix(l) ==
    /\ Len(l) >= 5
    /\ l[Len(l) - 4] = "["
    /\ l[Len(l) - 3] = "b"
    /\ l[Len(l) - 2] = "o"
    /\ l[Len(l) - 1] = "t"
    /\ l[Len(l)] = "]"

AutomatedSender(p) == TypeOfSender(p) = S_Bot \/ HasBotSuffix(LoginOf(p))

IsSuccess(resp) == resp.envelope = "success" /\ resp.status = 200

IsFailure(resp, code, status) ==
    resp.envelope = "error" /\ resp.code = code /\ resp.status = status

MessageHas(resp, part) == \E i \in DOMAIN resp.message : resp.message[i] = part

-----------------------------------------------------------------------------
(* Properties.                                                             *)

\* C1: among events that are well-formed, with integer number and sender
\* id, a fetch call is issued only for an "opened" action whose sender is
\* automated (type "Bot" or login ending in "[bot]"): a human sender's
\* "opened" event posts nothing.
C1_PostsOnlyForAutomatedOpened ==
    \A r \in Reqs :
        (/\ Parsed(r)
         /\ IntegerFields(payload[r])
         /\ CallsOf(r) # {})
        => /\ ActionOf(payload[r]) = S_opened
           /\ AutomatedSender(payload[r])

\* C2 as claimed: an event with every field well-formed and an action that
\* is any string other than "opened", the empty string included, is answered
\* 200 with the success envelope.
C2_AnyOtherActionIsSuccess ==
    \A r \in Reqs :
        (/\ Terminal(r)
         /\ Parsed(r)
         /\ WellFormedAnyAction(payload[r])
         /\ IntegerFields(payload[r])
         /\ ActionOf(payload[r]) # S_opened)
        => IsSuccess(response[r])

\* C2 as amended: a well-formed event whose action is a non-empty string
\* other than "opened" is answered 200 with the success envelope, its message
\* says that no review comment was posted, the credential is not consulted,
\* no actor is classified and no fetch call is made; an otherwise well-formed
\* event whose action is the empty string is rejected with
\* MISSING_ACTION and 400.
C2_OtherActionIsNoOp ==
    \A r \in Reqs :
        (/\ Terminal(r)
         /\ Parsed(r)
         /\ WellFormedAnyAction(payload[r])
         /\ ActionOf(payload[r]) # S_opened)
        => IF ActionOf(payload[r]) = <<>>
           THEN /\ IsFailure(response[r], "MISSING_ACTION", 400)
                /\ CallsOf(r) = {}
           ELSE /\ IsSuccess(response[r])
                /\ MessageHas(response[r],
                     Lit("' is not in the allow-list. No review comment posted."))
                /\ MessageHas(response[r], Dyn("payload.action", ActionOf(payload[r])))
                /\ token[r] = NotConsulted
                /\ actor = NoActor /\ verdict = "none"
                /\ CallsOf(r) = {}

\* A "closed" event, answered 200.
C2_Witness ==
    \E r \in Reqs :
        /\ pc[r] = "done"
        /\ Parsed(r)
        /\ WellFormed(payload[r])
        /\ ActionOf(payload[r]) = S_closed
        /\ IsSuccess(response[r])

\* C3: a well-formed "opened" event with an automated sender, a credential
\* that is present and a 2xx answer from the downstream API has caused exactly
\* one fetch call, for (repository.full_name, number, the composed comment),
\* and is answered 200 with a success message that holds the PR number and
\* the sender's login.
C3_BotOpenedPostsOnce ==
    \A r \in Reqs :
        (/\ Terminal(r)
         /\ Parsed(r)
         /\ WellFormed(payload[r])
         /\ ActionOf(payload[r]) = S_opened
         /\ AutomatedSender(payload[r])
         /\ IsNonEmptyString(token[r])
         /\ downstream[r].kind = "response"
         /\ downstream[r].status \in 200..299)
        => /\ Cardinality(CallsOf(r)) = 1
           /\ \A i \in CallsOf(r) :
                /\ calls[i].repo = Get(Get(payload[r], "repository"), "full_name")
                /\ calls[i].issueNumber = Get(payload[r], "number")
                /\ calls[i].body = generateReviewComment
           /\ IsSuccess(response[r])
           /\ MessageHas(response[r], Dyn("payload.number", Get(payload[r], "number")))
           /\ MessageHas(response[r], Dyn("payload.sender.login", LoginOf(payload[r])))

\* dependabot's "opened" event, the downstream API answering 201.
C3_Witness ==
    \E r \in Reqs :
        /\ pc[r] = "done"
        /\ Parsed(r)
        /\ WellFormed(payload[r])
        /\ ActionOf(payload[r]) = S_opened
        /\ LoginOf(payload[r]) = S_depbot
        /\ downstream[r].status = 201
        /\ Cardinality(CallsOf(r)) = 1
        /\ IsSuccess(response[r])

\* C4: isBot answers true exactly when the account type is "Bot" (case
\* matters) or the login ends with "[bot]"; it always answers.
C4_IsBotIffTypeOrSuffix ==
    verdict # "none" =>
        /\ verdict \in {"bot", "human"}
        /\ verdict = "bot" <=>
             \/ Get(actor, "type").s = S_Bot
             \/ HasBotSuffix(Get(actor, "login").s)

\* A login that holds "[bot]" without ending with it, and a type other than
\* "Bot", classified human.
C4_Witness ==
    /\ verdict = "human"
    /\ Get(actor, "login").s = S_botSuffix \o <<"x">>
    /\ Get(actor, "type").s = <<"b","o","t">>

\* C5: the validator rejects with the code of the first failing check in
\* the order payload type, action, pull_request, repository, number, sender,
\* sender.login, sender.type, sender.id, repository.full_name, and with 400;
\* a payload that lacks exactly one required field is rejected with that
\* field's code; a payload that passes every check gets no validator code.
C5_FirstFailingCheckWins ==
    \A r \in Reqs :
        Parsed(r) =>
            /\ FailingChecks(payload[r]) # {} =>
                 /\ pc[r] = "done"
                 /\ IsFailure(response[r], CheckCodes[FirstFailing(payload[r])], 400)
            /\ FailingChecks(payload[r]) = {} =>
                 \A i \in Checks : response[r].code # CheckCodes[i]
            /\ \A i \in Checks \ {1} :
                 (/\ CheckedValue(i, payload[r]) = Undefined
                  /\ \A j \in Checks \ ({i} \cup NestedChecks(i)) :
                       CheckPasses(j, payload[r]))
                 => IsFailure(response[r], CheckCodes[i], 400)

\* pull_request and number both fail their checks: the earlier one is named.
C5_Witness ==
    \E r \in Reqs :
        /\ Parsed(r)
        /\ FailingChecks(payload[r]) = {3, 5}
        /\ IsFailure(response[r], "MISSING_PULL_REQUEST", 400)

\* What section 4.5's table maps a downstream outcome to: <<code, status>>.
MappedFailure(d) ==
    IF d.kind \in {"error", "textError"}
    THEN IF d.name = S_AbortError \/ Includes(d.message, S_timeout)
         THEN <<"GITHUB_TIMEOUT", 503>>
         ELSE <<"GITHUB_NETWORK_ERROR", 503>>
    ELSE CASE d.status = 401 -> <<"GITHUB_AUTH_FAILED", 401>>
           [] d.status = 403 /\ Includes(d.text, S_rateLimit) -> <<"GITHUB_RATE_LIMIT", 429>>
           [] d.status = 403 /\ ~Includes(d.text, S_rateLimit) -> <<"GITHUB_FORBIDDEN", 403>>
           [] d.status = 404 -> <<"GITHUB_NOT_FOUND", 404>>
           [] d.status \notin {401, 403, 404} /\ d.status >= 500 ->
                <<"GITHUB_SERVER_ERROR", 503>>
           [] OTHER -> <<"GITHUB_API_REQUEST_FAILED", d.status>>

\* C6: whatever the downstream outcome of the fetch call, once the request
\* is over the caller has the error envelope with the code and status the
\* table maps that outcome to.
C6_MappedFailureReachesCaller ==
    \A r \in Reqs :
        (/\ Terminal(r)
         /\ downstream[r].kind \in {"error", "textError", "responseText"})
        => IsFailure(response[r], MappedFailure(downstream[r])[1],
                     MappedFailure(downstream[r])[2])

\* C7: when the credential is absent (the variable is unset or empty), a
\* request that consulted it is answered MISSING_GITHUB_TOKEN and 500, and
\* has issued no fetch call.
C7_MissingTokenFailsBeforeFetch ==
    \A r \in Reqs :
        (token[r] = Undefined \/ token[r] = Str(<<>>))
        => /\ pc[r] = "done"
           /\ IsFailure(response[r], "MISSING_GITHUB_TOKEN", 500)
           /\ CallsOf(r) = {}
           /\ downstream[r] = NoDownstream

\* An "opened" event served while GITHUB_TOKEN is unset.
C7_Witness ==
    \E r \in Reqs :
        /\ token[r] = Undefined
        /\ Parsed(r)
        /\ ActionOf(payload[r]) = S_opened
        /\ IsFailure(response[r], "MISSING_GITHUB_TOKEN", 500)

\* C8: a request whose method is not POST is answered 405 and
\* METHOD_NOT_ALLOWED whatever its Content-Type header is, and its body is
\* neither read nor parsed.
C8_NonPostIsRejected ==
    \A r \in Reqs :
        (pc[r] \notin {"idle", "off"} /\ method[r] # "POST")
        => /\ pc[r] = "done"
           /\ IsFailure(response[r], "METHOD_NOT_ALLOWED", 405)
           /\ body[r] = NotRead
           /\ payload[r] = NotParsed

\* A GET without a Content-Type header, answered 405.
C8_Witness ==
    \E r \in Reqs :
        /\ method[r] = "GET"
        /\ contentType[r] = Null
        /\ IsFailure(response[r], "METHOD_NOT_ALLOWED", 405)

UpperCase == <<"A","B","C","D","E","F","G","H","I","J","K","L","M",
               "N","O","P","Q","R","S","T","U","V","W","X","Y","Z">>
LowerCase == <<"a","b","c","d","e","f","g","h","i","j","k","l","m",
               "n","o","p","q","r","s","t","u","v","w","x","y","z">>

ToLowerChar(c) ==
    IF \E i \in DOMAIN UpperCase : UpperCase[i] = c
    THEN LowerCase[CHOOSE i \in DOMAIN UpperCase : UpperCase[i] = c]
    ELSE c

ToLower(s) == [i \in 1..Len(s) |-> ToLowerChar(s[i])]

\* The media type of a Content-Type value: what precedes the parameters,
\* without surrounding blanks, in lower case (media types ignore case).
MediaType(s) ==
    LET semis == {i \in 1..Len(s) : s[i] = ";"}
        cut   == IF semis = {} THEN Len(s) + 1
                 ELSE CHOOSE i \in semis : \A j \in semis : i <= j
    IN  ToLower(StripRight(StripLeft(SubSeq(s, 1, cut - 1), {" "}), {" "}))

\* The header declares a JSON media type: application/json, or a type with
\* the +json structured-syntax suffix.
DeclaresJson(ct) ==
    /\ ct.t = "string"
    /\ \/ MediaType(ct.s) = S_appJson
       \/ EndsWith(MediaType(ct.s), <<"+","j","s","o","n">>)

\* C9: a POST is answered 400 and INVALID_CONTENT_TYPE, its body unread,
\* exactly when its Content-Type header is absent or declares no JSON media
\* type.
C9_JsonMediaTypeDecides ==
    \A r \in Reqs :
        (pc[r] \notin {"idle", "off"} /\ method[r] = "POST")
        => IF DeclaresJson(contentType[r])
           THEN response[r].code # "INVALID_CONTENT_TYPE"
           ELSE /\ IsFailure(response[r], "INVALID_CONTENT_TYPE", 400)
                /\ body[r] = NotRead

\* Every token of the body is white space.
AllWhitespace(b) == \A i \in DOMAIN b : b[i] \in {"SP", "NBSP"}

\* The body is one JSON value, with JSON white space at most around it.
IsOneJsonValue(b) ==
    \E i \in DOMAIN b :
        /\ b[i] = "DOC"
        /\ \A j \in DOMAIN b \ {i} : b[j] = "SP"

\* C10: once the body of a POST with an accepted Content-Type is read, an
\* empty or all-white-space body is answered EMPTY_PAYLOAD and 400, and any
\* other body that is not one JSON value is answered INVALID_JSON and 400;
\* in both cases nothing was parsed, so no validator code is returned.
C10_BodyErrorsPrecedeValidation ==
    \A r \in Reqs :
        body[r] # NotRead =>
            /\ AllWhitespace(body[r]) =>
                 /\ IsFailure(response[r], "EMPTY_PAYLOAD", 400)
                 /\ payload[r] = NotParsed
            /\ (~AllWhitespace(body[r]) /\ ~IsOneJsonValue(body[r])) =>
                 /\ IsFailure(response[r], "INVALID_JSON", 400)
                 /\ payload[r] = NotParsed
            /\ IsOneJsonValue(body[r]) =>
                 response[r].code \notin {"EMPTY_PAYLOAD", "INVALID_JSON"}

\* A body of white space that only trim() knows, answered EMPTY_PAYLOAD.
C10_Witness ==
    \E r \in Reqs :
        /\ body[r] = <<"NBSP">>
        /\ IsFailure(response[r], "EMPTY_PAYLOAD", 400)

\* The four review triggers, in the order section 4.3 lists them.
ReviewTriggers ==
    <<"@coderabbitai review", "/gemini review", "@cubic-dev-ai review",
      "@greptile review">>

\* C11: the comment body of every fetch call, whatever request caused it, is
\* the four review triggers in order, each on its own line: one newline
\* between two lines, none after the last.
C11_CommentIsTheFourTriggers ==
    \A i \in DOMAIN calls :
        /\ Len(calls[i].body) = 7
        /\ \A k \in 1..4 : calls[i].body[2 * k - 1] = ReviewTriggers[k]
        /\ \A k \in 1..3 : calls[i].body[2 * k] = "\n"

\* Calls were made for a human's event, whose number is not an integer, and
\* the body is the four lines all the same.
C11_Witness ==
    \E i \in DOMAIN calls :
        /\ LoginOf(payload[calls[i].req]) = S_alice
        /\ Get(payload[calls[i].req], "number") = Num(7, "fraction")
        /\ calls[i].body = <<"@coderabbitai review", "\n", "/gemini review", "\n",
                              "@cubic-dev-ai review", "\n", "@greptile review">>

\* An error that is none of the handler's three classes reached the
\* handler's boundary while request r was served: Deno.env.get threw in the
\* client's constructor, or the Response constructor threw in the catch
\* block.  (What req.text(), JSON.parse and fetch throw is caught and wrapped
\* in a coded error before it gets there.)
UnexpectedErrorRaised(r) ==
    \/ token[r] = EnvThrows
    \/ pc[r] = "rejected"

GenericMessage == <<Lit("An unexpected error occurred while processing the webhook")>>

\* C12: a request (for a well-formed event with integer number and sender
\* id) during which an error outside the coded kinds was raised is answered
\* 500 with INTERNAL_ERROR and the fixed generic message, which holds no part
\* of the error's own message.
C12_UnexpectedErrorIsInternalError ==
    \A r \in Reqs :
        (/\ Terminal(r)
         /\ Parsed(r)
         /\ IntegerFields(payload[r])
         /\ UnexpectedErrorRaised(r))
        => /\ IsFailure(response[r], "INTERNAL_ERROR", 500)
           /\ response[r].message = GenericMessage

\* Requests a and b are the same request, served with the same credential.
SameRequest(a, b) ==
    /\ method[a] = method[b]
    /\ contentType[a] = contentType[b]
    /\ body[a] = body[b]
    /\ readError[a] = readError[b]
    /\ payload[a] = payload[b]
    /\ token[a] = token[b]

\* The downstream outcomes of a and b differ at most in the text that
\* accompanies them: the same kind of outcome, the same status, the same
\* rate-limit classification of the body, the same error name and the same
\* timeout classification of the message.
SameDownstreamClass(a, b) ==
    /\ downstream[a].kind = downstream[b].kind
    /\ downstream[a].status = downstream[b].status
    /\ Includes(downstream[a].text, S_rateLimit) <=> Includes(downstream[b].text, S_rateLimit)
    /\ downstream[a].name = downstream[b].name
    /\ Includes(downstream[a].message, S_timeout) <=> Includes(downstream[b].message, S_timeout)

\* C13: two requests that are the same but for the body of the downstream
\* response, or but for the message of the error that fetch or
\* response.text() raised, get the same response: status, code and message.
C13_NoDiagnosticEcho ==
    \A a, b \in Reqs :
        (/\ pc[a] = "done" /\ pc[b] = "done"
         /\ SameRequest(a, b)
         /\ SameDownstreamClass(a, b))
        => response[a] = response[b]

\* The handler invocation for r can take a step.
CanStep(r) ==
    \/ ENABLED HandleRequest(r, Inputs)
    \/ ENABLED BodyArrives(r, Inputs)
    \/ ENABLED FetchSettles(r, Inputs)
    \/ ENABLED TextArrives(r, Inputs)

\* C14: no error leaves the handler: an invocation never ends by rejecting.
\* One that has ended has returned one response, a success or an error
\* envelope; one that has not ended has returned none and can take its
\* next step, whichever stage of the pipeline it is at.
C14_EveryRequestIsAnswered ==
    \A r \in Reqs :
        /\ pc[r] # "rejected"
        /\ pc[r] = "done" => response[r].envelope \in {"success", "error"}
        /\ pc[r] \in {"idle", "awaitBody", "awaitFetch", "awaitText"} =>
             /\ response[r] = NoResponse
             /\ CanStep(r)

\* The downstream call of request r failed: fetch rejected, or the response
\* was not ok (its text was read, or reading it failed).
DownstreamFailed(r) == downstream[r].kind \in {"error", "textError", "responseText"}

\* C15: a request causes at most one fetch call; one whose downstream call
\* failed has, once it is over, still made just that one call, and the
\* caller has that failure: the error envelope with the failure's code and
\* status.
C15_OneCallAndItsFailure ==
    \A r \in Reqs :
        /\ Cardinality(CallsOf(r)) <= 1
        /\ (Terminal(r) /\ DownstreamFailed(r)) =>
             /\ Cardinality(CallsOf(r)) = 1
             /\ IsFailure(response[r], MappedFailure(downstream[r])[1],
                          MappedFailure(downstream[r])[2])

\* The validator returned for request r's payload: the handler went on to
\* the allow-list.
Accepted(r) == \E i \in DOMAIN passed[r] : passed[r][i] = "validate"

\* A number that is a finite integer.
IsFiniteInteger(v) == v.t = "number" /\ v.k = "integer"

\* C16 as claimed: the payload of every request the validator accepted has
\* non-empty strings for sender.login, sender.type and repository.full_name,
\* a string for action, and finite integers for number and sender.id.
C16_AcceptedEventIsWellTyped ==
    \A r \in Reqs :
        Accepted(r) =>
            /\ IsNonEmptyString(Get(Get(payload[r], "sender"), "login"))
            /\ IsNonEmptyString(Get(Get(payload[r], "sender"), "type"))
            /\ IsNonEmptyString(Get(Get(payload[r], "repository"), "full_name"))
            /\ Get(payload[r], "action").t = "string"
            /\ IsFiniteInteger(Get(payload[r], "number"))
            /\ IsFiniteInteger(Get(Get(payload[r], "sender"), "id"))

\* The fields of p have the types the validator looks for: non-empty
\* strings, and numbers of any kind.
HasTypedFields(p) ==
    /\ IsNonEmptyString(Get(Get(p, "sender"), "login"))
    /\ IsNonEmptyString(Get(Get(p, "sender"), "type"))
    /\ IsNonEmptyString(Get(Get(p, "repository"), "full_name"))
    /\ IsNonEmptyString(Get(p, "action"))
    /\ Get(p, "number").t = "number"
    /\ Get(Get(p, "sender"), "id").t = "number"

\* C16 as amended: the payload of every request the validator accepted has
\* non-empty strings for action, sender.login, sender.type and
\* repository.full_name, and numbers for number and sender.id; the validator
\* does not look at what kind of number, so an event whose number or
\* sender.id is a fraction or is not finite, and whose other fields pass, is
\* accepted.
C16_AcceptedEventHasTypedFields ==
    \A r \in Reqs :
        Parsed(r) =>
            /\ Accepted(r) => HasTypedFields(payload[r])
            /\ WellFormed(payload[r]) => Accepted(r)

\* An accepted event whose number and sender.id are both fractions.
C16_Witness ==
    \E r \in Reqs :
        /\ Accepted(r)
        /\ Get(payload[r], "number") = Num(7, "fraction")
        /\ Get(Get(payload[r], "sender"), "id") = Num(1, "fraction")

\* C17: in every response the handler returns, the body is the success
\* envelope exactly when the status is 200, and an error envelope comes with
\* a status from 400 to 599, also when the status is the downstream
\* response's own.
C17_EnvelopeMatchesStatus ==
    \A r \in Reqs :
        pc[r] = "done" =>
            /\ response[r].envelope \in {"success", "error"}
            /\ response[r].envelope = "success" <=> response[r].status = 200
            /\ response[r].envelope = "error" => response[r].status \in 400..599

\* The Response the handler returns for the inputs request r was given,
\* computed from those inputs alone; Thrown when building it throws.
ResponseAlone(r) ==
    LET p    == payload[r]
        d    == downstream[r]
        head == ValidateRequestHead(method[r], contentType[r])
    IN
    IF head # NoResponse THEN head
    ELSE IF readError[r] # NoReadError
    THEN HandleError(WebhookError(
           <<Lit("Failed to parse webhook payload as JSON: "),
             Dyn("parseError.message", readError[r])>>, 400, "INVALID_JSON"))
    ELSE IF Trim(body[r]) = <<>>
    THEN HandleError(WebhookError(<<Lit("Request body is empty")>>, 400, "EMPTY_PAYLOAD"))
    ELSE IF ~JsonParses(body[r])
    THEN HandleError(WebhookError(
           <<Lit("Failed to parse webhook payload as JSON: "),
             Dyn("parseError.message", body[r])>>, 400, "INVALID_JSON"))
    ELSE IF validateWebhookPayload(p) # NoError
    THEN HandleError(validateWebhookPayload(p))
    ELSE IF Get(p, "action") \notin ALLOWED_ACTIONS
    THEN createSuccessResponse(
           <<Lit("Action '"), Dyn("payload.action", Get(p, "action").s),
             Lit("' is not in the allow-list. No review comment posted.")>>)
    ELSE IF NewGitHubApiClient(token[r]) # NoError
    THEN HandleError(NewGitHubApiClient(token[r]))
    ELSE IF d.kind = "response"
    THEN createSuccessResponse(
           <<Lit("Review comment posted successfully for PR #"),
             Dyn("payload.number", Get(p, "number")), Lit(" by "),
             Dyn("payload.sender.login", Get(Get(p, "sender"), "login").s)>>)
    ELSE IF d.kind = "responseText"
    THEN HandleError(HttpFailure(d.status, d.text,
                                 Get(Get(p, "repository"), "full_name").s,
                                 Get(p, "number")))
    ELSE HandleError(NetworkFailure(d.name, d.message))

\* The fetch calls request r causes, given its own payload and the
\* credential it read.
CallsAlone(r) ==
    IF IsNonEmptyString(token[r])
    THEN { [req |-> r,
            repo |-> Get(Get(payload[r], "repository"), "full_name"),
            issueNumber |-> Get(payload[r], "number"),
            body |-> generateReviewComment,
            token |-> token[r]] }
    ELSE {}

\* What a request has got, whatever the other request did meanwhile, is
\* what it gets alone.
AsIfAlone ==
    \A r \in Reqs :
        /\ Terminal(r) =>
             IF ResponseAlone(r) = Thrown
             THEN pc[r] = "rejected" /\ response[r] = NoResponse
             ELSE pc[r] = "done" /\ response[r] = ResponseAlone(r)
        /\ ~Terminal(r) => response[r] = NoResponse
        /\ {calls[i] : i \in CallsOf(r)} = CallsAlone(r)
        /\ Cardinality(CallsOf(r)) <= 1

\* What the model keeps for request q.
StateOf(q) ==
    <<pc[q], method[q], contentType[q], body[q], readError[q], payload[q], token[q],
      downstream[q], response[q], passed[q]>>

\* A step serves one request: it leaves what is kept for every other
\* request as it was, and the calls made so far too, adding at most calls of
\* that one request.
StepIsLocal ==
    \E r \in Reqs :
        /\ \A q \in Reqs \ {r} : StateOf(q)' = StateOf(q)
        /\ Len(calls') >= Len(calls)
        /\ \A i \in DOMAIN calls' :
             IF i \in DOMAIN calls THEN calls'[i] = calls[i] ELSE calls'[i].req = r

\* C18: with two requests served at once, their segments interleaved in
\* any order, each request's response and fetch call are those it gets
\* alone, as a function of its own inputs, and no step taken for one request
\* touches what is kept for the other.
C18_RequestsAreIndependent == []AsIfAlone /\ [][StepIsLocal]_vars

\* Request 2 made its call first; request 1 then made its own, for another
\* pull request, and was answered while request 2 was still waiting for the
\* downstream response's text.
C18_Witness ==
    /\ Len(calls) = 2
    /\ calls[1].req = 2 /\ calls[2].req = 1
    /\ calls[1].issueNumber # calls[2].issueNumber
    /\ pc[1] = "done" /\ IsSuccess(response[1])
    /\ pc[2] = "awaitText"

\* The fields of an event other than pull_request.
WithoutPullRequest(p) == [k \in DOMAIN p.f \ {"pull_request"} |-> p.f[k]]

\* Requests a and b carry valid events that differ at most in what
\* pull_request holds, and met the same credential and the same downstream
\* outcome.
DifferOnlyInPullRequest(a, b) ==
    /\ Parsed(a) /\ Parsed(b)
    /\ validateWebhookPayload(payload[a]) = NoError
    /\ validateWebhookPayload(payload[b]) = NoError
    /\ WithoutPullRequest(payload[a]) = WithoutPullRequest(payload[b])
    /\ token[a] = token[b]
    /\ downstream[a] = downstream[b]

\* C19: the sender decides, not pull_request.user.  Two valid events that
\* differ only in pull_request get the same response and both or neither
\* cause a fetch call; and an "opened" event whose pull_request.user is a
\* bot and whose sender is human causes no fetch call.
C19_SenderDecides ==
    /\ \A a, b \in Reqs :
          (Terminal(a) /\ Terminal(b) /\ DifferOnlyInPullRequest(a, b))
          => /\ pc[a] = pc[b]
             /\ response[a] = response[b]
             /\ CallsOf(a) = {} <=> CallsOf(b) = {}
    /\ \A r \in Reqs :
          (/\ Parsed(r)
           /\ validateWebhookPayload(payload[r]) = NoError
           /\ ActionOf(payload[r]) = S_opened
           /\ isBot(Get(Get(payload[r], "pull_request"), "user"))
           /\ ~AutomatedSender(payload[r]))
          => CallsOf(r) = {}

\* The codes of the errors raised before the allow-list: by the checks of
\* the method and of the Content-Type, by reading and parsing the body, and
\* by the validator.
ValidationCodes ==
    {"METHOD_NOT_ALLOWED", "INVALID_CONTENT_TYPE", "EMPTY_PAYLOAD", "INVALID_JSON"}
    \cup {CheckCodes[i] : i \in Checks}

\* The stages a request passes before its fetch call, in the order the
\* handler runs them.
StagesBeforePosting == <<"method", "contentType", "parse", "validate", "allowList">>

\* C20: a request answered with a validation-stage code has not read the
\* credential and has caused no fetch call; a request that caused a fetch
\* call passed the method check, the Content-Type check, the parsing of the
\* body, the validator and the allow-list, in that order, and its inputs are
\* those that pass each of them; a request that failed one of them consumed
\* no input of a later one.
C20_ChecksPrecedePosting ==
    \A r \in Reqs :
        /\ response[r].code \in ValidationCodes =>
             /\ token[r] = NotConsulted
             /\ CallsOf(r) = {}
             /\ downstream[r] = NoDownstream
        /\ CallsOf(r) # {} =>
             /\ Len(passed[r]) >= 5
             /\ SubSeq(passed[r], 1, 5) = StagesBeforePosting
             /\ method[r] = "POST"
             /\ contentType[r].t = "string" /\ Includes(contentType[r].s, S_appJson)
             /\ IsOneJsonValue(body[r])
             /\ \A i \in Checks : CheckPasses(i, payload[r])
             /\ ActionOf(payload[r]) = S_opened
        /\ response[r].code = "METHOD_NOT_ALLOWED" =>
             body[r] = NotRead /\ readError[r] = NoReadError
        /\ response[r].code = "INVALID_CONTENT_TYPE" =>
             method[r] = "POST" /\ body[r] = NotRead /\ readError[r] = NoReadError
        /\ response[r].code \in {"EMPTY_PAYLOAD", "INVALID_JSON"} =>
             passed[r] = <<"method", "contentType">> /\ payload[r] = NotParsed
        /\ response[r].code \in {CheckCodes[i] : i \in Checks} =>
             passed[r] = <<"method", "contentType", "parse">>

\* An event that fails only the validator's last check, answered without
\* the credential having been read.
C20_Witness ==
    \E r \in Reqs :
        /\ pc[r] = "done"
        /\ IsFailure(response[r], "MISSING_REPO_FULL_NAME", 400)
        /\ FailingChecks(payload[r]) = {10}
        /\ token[r] = NotConsulted
        /\ CallsOf(r) = {}

\* The event of request r is valid, with integer number and sender id, and
\* is one the handler is not to post for: its action is not "opened", or
\* its sender is not automated.
ValidNonPosting(r) ==
    /\ Parsed(r)
    /\ WellFormed(payload[r])
    /\ IntegerFields(payload[r])
    /\ ActionOf(payload[r]) # S_opened \/ ~AutomatedSender(payload[r])

\* C21: a request for a valid event that is not to be posted for, whether
\* because its action is not "opened" or because its sender is human, does
\* not consult the credential, so that it is answered 200 also when
\* GITHUB_TOKEN is unset or empty, never MISSING_GITHUB_TOKEN and 500.
C21_CredentialOnlyWhenPosting ==
    \A r \in Reqs :
        (Terminal(r) /\ ValidNonPosting(r))
        => /\ token[r] = NotConsulted
           /\ IsSuccess(response[r])

====
